---- MODULE Spec2Model ----
(***************************************************************************)
(* Model of Menu-Vision AI (kikugo/visual-menu-ai).                        *)
(*                                                                         *)
(*   src/src/imaging.py  generate_images_for_menu, generate_image_async,   *)
(*                       fetch_image_bytes: the image-generation batch     *)
(*   src/app.py          validate_menu_items, process_menu, main           *)
(*   src/src/vision.py   extract_menu_items_from_image / _from_text        *)
(*                                                                         *)
(* A Python str is a sequence of one-character strings, so that strip()    *)
(* and truthiness are computed and not assumed.  A Python dict is a        *)
(* function whose DOMAIN is its key set.                                   *)
(***************************************************************************)
EXTENDS Integers, Sequences, FiniteSets, TLC

(***************************************************************************)
(* Bounds of the model.                                                    *)
(***************************************************************************)
\* longest menu handed to the batch in Spec
MaxItems == 3
\* length of the menu of valid items in SpecBurst
BurstItems == 6
\* longest list the extraction service answers with in SpecApp
MaxExtract == 2
\* longest list handed to validate_menu_items and process_menu in SpecValidate
MaxCandidates == 2

\* most items of a menu whose order of completion is observed
OrderItems == 2

\* most items of a menu the batch is called on twice
TwiceItems == 2

\* most items of a menu handed to the batch when the account may be rejected
RejectItems == 2

\* most items of a menu whose batch is followed to its end
LiveItems == 2

\* longest payload wrapped into fences and handed to clean_json_response
MaxPayload == 3

\* os.cpu_count() of the hosts considered
CpuCounts == {1, 2}

(***************************************************************************)
(* Python values.                                                          *)
(***************************************************************************)
\* the str "" (and the default of dict.get(key, ''))
EmptyStr == << >>

\* Python's None
None == [py |-> "None"]

\* an asyncio.CancelledError instance (a BaseException, not an Exception)
CancelledError == [py |-> "CancelledError"]

\* a coroutine function called with an argument it does not declare
TypeError == [py |-> "TypeError"]

\* the dict {}
EmptyDict == [k \in {} |-> [py |-> "None"]]

\* str.isspace() for one character
IsSpace(c) == c \in {" ", "\t", "\n"}

RECURSIVE LStrip(_)
\* str.lstrip(): drop the leading whitespace
LStrip(s) == IF s # << >> /\ IsSpace(Head(s)) THEN LStrip(Tail(s)) ELSE s

RECURSIVE RStrip(_)
\* str.rstrip(): drop the trailing whitespace
RStrip(s) ==
    IF s # << >> /\ IsSpace(s[Len(s)]) THEN RStrip(SubSeq(s, 1, Len(s) - 1)) ELSE s

\* str.strip()
Strip(s) == RStrip(LStrip(s))

\* bool(s) of a str (or bytes): non-empty
Truthy(s) == s # << >>

\* dict.get(key, default)
Get(d, key, default) == IF key \in DOMAIN d THEN d[key] ELSE default

\* d2 is d with d2's extra keys set: dict.copy() followed by item assignments
Extend(d, extra) ==
    [k \in DOMAIN d \cup DOMAIN extra |-> IF k \in DOMAIN extra THEN extra[k] ELSE d[k]]

(***************************************************************************)
(* The menu items the batch is run on.                                     *)
(***************************************************************************)
SoupItem ==
    [name |-> <<"S", "o", "u", "p">>,
     description |-> <<"h", "o", "t">>,
     price |-> <<"$", "5">>,
     tags |-> << <<"v", "e", "g">> >>,
     ingredients |-> << <<"l", "e", "e", "k">> >>,
     prompt |-> <<"a", " ", "s", "o", "u", "p">>]

SaladItem ==
    [name |-> <<"S", "a", "l", "a", "d">>,
     description |-> EmptyStr,
     price |-> EmptyStr,
     prompt |-> <<"a", " ", "s", "a", "l", "a", "d">>]

\* an item with no 'prompt' key at all
TeaItem ==
    [name |-> <<"T", "e", "a">>,
     description |-> EmptyStr,
     price |-> <<"$", "2">>]

PipelinePool == {SoupItem, SaladItem, TeaItem}

\* all sequences over S of length 0..n
SeqsUpTo(S, n) == UNION {[1..k -> S] : k \in 0..n}

\* what replicate.run returned for a prompt: the URL of the generated image
UrlOf(prompt) == <<"u", "r", "l", ":">> \o prompt

\* what the fetch of a URL read: the image bytes
BytesOf(url) == <<"P", "N", "G">> \o url


(***************************************************************************)
(* State.                                                                  *)
(***************************************************************************)
VARIABLES
    menu_items,       \* the list handed to generate_images_for_menu
    api_token,        \* whether REPLICATE_API_TOKEN is set in the environment
    cpu_count,        \* os.cpu_count() of the host
    pc,               \* where generate_images_for_menu is
    task,             \* task[i]: where the coroutine generate_image_async(menu_items[i]) is
    executor_queue,   \* work items the default executor has not started yet
    in_flight,        \* items whose replicate.run is executing in a worker thread
    results,          \* results[i]: what gather collected for task i
    log,              \* log[i]: the line generate_image_async printed last for item i
    error_text,       \* error_text[i]: the {e} of the "Error generating image" line, if printed
    requests,         \* requests[i]: calls of replicate.run made for item i
    fetches,          \* fetches[i]: session.get calls made for item i
    returned,         \* the value generate_images_for_menu returned
    progress_calls,   \* the (completed, total, item_name) calls the progress sink received
    google_key,       \* whether GOOGLE_API_KEY is set in the environment
    candidate,        \* the list a caller hands to validate_menu_items or process_menu
    response,         \* what the extraction service answers to a caller of vision.py
    session_state,    \* st.session_state of the Streamlit session
    ui,               \* what the last handler showed: st.error, st.warning, st.success, ...
    calls,            \* the calls of generate_images_for_menu the last handler made
    last,             \* the last handler run: its name, its input and what it returned
    completion,       \* the order in which the tasks ended, when an observer notes it
    service,          \* the outcome the services give for each prompt, when that is fixed
    call_no,          \* which call of generate_images_for_menu on menu_items this is
    first_returned    \* what the first call returned, once a second one is made

pipeline_vars ==
    <<menu_items, api_token, cpu_count, pc, task, executor_queue, in_flight,
      results, log, error_text, requests, fetches, returned, progress_calls>>

app_vars == <<google_key, candidate, response, session_state, ui, calls, last>>

\* what stays the same while one batch runs
call_vars == <<service, call_no, first_returned>>

harness_vars == <<completion, call_vars>>

vars == <<pipeline_vars, app_vars, harness_vars>>

\* a slot that holds no value yet
NoValue == [py |-> "NoValue"]

Items == 1..Len(menu_items)

\* the positions a coroutine can be suspended at (an await)
Awaiting == {"queued", "running", "fetching"}

(***************************************************************************)
(* imaging.py                                                              *)
(***************************************************************************)
\* max_workers of the loop's default ThreadPoolExecutor, which
\* run_in_executor(None, ...) uses: min(32, os.cpu_count() + 4)
DefaultMaxWorkers(cpus) == IF cpus + 4 < 32 THEN cpus + 4 ELSE 32

\* a slip: an item without a prompt is drawn from its name
PromptOfFallsBackToName(item) == Get(item, "prompt", Get(item, "name", EmptyStr))

\* a slip: the token is not looked at before the request is built
TokenCheckSkipped(token) == FALSE

\* `if not api_token: raise ValueError(...)`
TokenMissing(token) == ~token

\* the prompt generate_image_async reads from the item
PromptOf(item) == Get(item, "prompt", EmptyStr)

\* a Python list
List(elems) == [py |-> "list", value |-> elems]

\* a slip: the empty menu answered with None
EmptyReturnNone == None

\* `if not menu_items: return []`
EmptyReturn == List(<< >>)

\* a slip: the result is built from the name and the image alone
AugmentDropsFields(item, image_bytes, url) ==
    [name |-> Get(item, "name", EmptyStr), image_bytes |-> image_bytes, image_url |-> url]

\* result = menu_item.copy(); result['image_bytes'] = ...; result['image_url'] = ...
Augment(item, image_bytes, url) ==
    Extend(item, [image_bytes |-> image_bytes, image_url |-> url])

\* a slip: a request that gave no output is submitted again
AfterRequestRetries(out) ==
    IF out = "url" THEN "fetching" ELSE IF out = "none" THEN "queued" ELSE "done"

\* a slip: after a request without output the coroutine awaits an output
\* that nobody will deliver
AfterRequestAwaitsOutput(out) ==
    IF out = "url" THEN "fetching" ELSE IF out = "none" THEN "running" ELSE "done"

\* where the coroutine goes once replicate.run ended with `out`
AfterRequest(out) == IF out = "url" THEN "fetching" ELSE "done"

\* the ways a call ends with an exception: replicate.run raises for a failure
\* of the service or for a rejected account (HTTP 402), session.get raises
\* something that is no aiohttp.ClientError
Raises == {"raise", "payment_required", "other_error"}

\* str(e) of the exception, which line 80 puts after the colon
ExceptionText(out) ==
    CASE out = "no_token" -> <<"n", "o", " ", "t", "o", "k", "e", "n">>
      [] out = "raise" -> <<"5", "0", "0">>
      [] out = "payment_required" -> <<"4", "0", "2">>
      [] out = "other_error" -> <<"f", "e", "t", "c", "h">>

\* the line printed on each way out of the request: every exception gets the
\* line of the catch-all handler
RequestLog(out) ==
    CASE out = "url" -> "generating"
      [] out = "none" -> "no_output"
      [] out \in Raises -> "error"

\* fetch_image_bytes: the bytes read, None on aiohttp.ClientError; any other
\* exception leaves it and is caught by generate_image_async
FetchImageBytes(url, out) ==
    CASE out = "bytes" -> [py |-> "bytes", value |-> BytesOf(url)]
      [] out = "client_error" -> None
      [] out = "other_error" -> [py |-> "raise"]

\* what generate_image_async returns after the fetch
ResultAfterFetch(item, url, fetched) ==
    IF fetched.py = "bytes" /\ Truthy(fetched.value)
    THEN Augment(item, fetched.value, url)
    ELSE None

\* the line printed on each way out of the fetch
FetchLog(fetched) ==
    CASE fetched.py = "bytes" /\ Truthy(fetched.value) -> "success"
      [] fetched.py = "raise" -> "error"
      [] OTHER -> "fetch_failed"

\* the Python type of a value: a menu item is a dict
TypeOf(v) == IF "py" \in DOMAIN v THEN v.py ELSE "dict"

\* isinstance(result, Exception): a CancelledError is a BaseException only
IsException(r) == TypeOf(r) = "Exception"

RECURSIVE SuccessfulResultsStopsAtFailure(_)
\* a slip: the filter loop ends at the first failed item
SuccessfulResultsStopsAtFailure(rs) ==
    IF rs = << >> THEN << >>
    ELSE IF IsException(Head(rs)) \/ Head(rs) = None THEN << >>
    ELSE <<Head(rs)>> \o SuccessfulResultsStopsAtFailure(Tail(rs))

RECURSIVE SuccessfulResultsPrepends(_)
\* a slip: each kept result is put in front of the list (insert(0, result))
SuccessfulResultsPrepends(rs) ==
    IF rs = << >> THEN << >>
    ELSE IF IsException(Head(rs)) \/ Head(rs) = None
    THEN SuccessfulResultsPrepends(Tail(rs))
    ELSE SuccessfulResultsPrepends(Tail(rs)) \o <<Head(rs)>>

RECURSIVE SuccessfulResults(_)
\* the filter loop of generate_images_for_menu over gather's results
SuccessfulResults(rs) ==
    IF rs = << >> THEN << >>
    ELSE IF IsException(Head(rs)) THEN SuccessfulResults(Tail(rs))
    ELSE IF Head(rs) # None THEN <<Head(rs)>> \o SuccessfulResults(Tail(rs))
    ELSE SuccessfulResults(Tail(rs))

\* a slip: gather's results are taken as the tasks ended (as_completed)
ResultsAsCompleted ==
    IF completion = NoValue THEN [i \in Items |-> results[i]]
    ELSE [k \in 1..Len(completion.value) |-> results[completion.value[k]]]

\* what `await asyncio.gather(*tasks, return_exceptions=True)` gives: the
\* result of task i at position i
GatheredResults == [i \in Items |-> results[i]]

\* a slip: the tasks list outlives the call, and a task that has ended is
\* not created again
NewTaskKeepsEnded(i) == IF pc = "returned" /\ task[i] = "done" THEN "done" ELSE "pending"

\* `tasks = [generate_image_async(item) for item in menu_items]`: each call
\* makes a new coroutine for every item
NewTask(i) == "pending"

\* the service gives outcome `out` to the request or the fetch for item i:
\* any outcome when nothing is fixed, else the one fixed for the prompt
ServiceGives(i, step, out) ==
    \/ service.py = "NoValue"
    \/ /\ service.py = "fixed"
       /\ service.outcome[PromptOf(menu_items[i])][step] = out

\* nobody notes the order of completion, the services answer as they like,
\* and the batch is called once
HarnessOff ==
    /\ completion = NoValue
    /\ service = NoValue
    /\ call_no = 1
    /\ first_returned = NoValue

\* a caller awaits generate_images_for_menu(menu_items) on a host
InitPipeline(menus, cpus) ==
    /\ menu_items \in menus
    /\ api_token \in BOOLEAN
    /\ cpu_count \in cpus
    /\ pc = "called"
    /\ task = [i \in Items |-> NewTask(i)]
    /\ executor_queue = << >>
    /\ in_flight = {}
    /\ results = [i \in Items |-> NoValue]
    /\ log = [i \in Items |-> "none"]
    /\ error_text = [i \in Items |-> EmptyStr]
    /\ requests = [i \in Items |-> 0]
    /\ fetches = [i \in Items |-> 0]
    /\ returned = NoValue
    /\ progress_calls = << >>
    /\ google_key = TRUE
    /\ candidate = << >>
    /\ response = NoValue
    /\ session_state = EmptyDict
    /\ ui = << >>
    /\ calls = << >>
    /\ last = NoValue

\* lines 93-94: the empty menu returns at once
ReturnEmpty ==
    /\ pc = "called"
    /\ menu_items = << >>
    /\ pc' = "returned"
    /\ returned' = EmptyReturn
    /\ UNCHANGED <<app_vars, call_vars>>
    /\ UNCHANGED <<menu_items, api_token, cpu_count, error_text, task, executor_queue, in_flight,
                   results, log, requests, fetches, progress_calls,
                   completion>>

\* lines 96-102: one coroutine per item, all handed to asyncio.gather
Gather ==
    /\ pc = "called"
    /\ menu_items # << >>
    /\ pc' = "gathering"
    /\ UNCHANGED <<app_vars, call_vars>>
    /\ UNCHANGED <<menu_items, api_token, cpu_count, error_text, task, executor_queue, in_flight,
                   results, log, requests, fetches, returned, progress_calls,
                   completion>>

\* the event loop runs the first step of each task in creation order
MayStart(i) ==
    /\ pc = "gathering"
    /\ task[i] = "pending"
    /\ \A j \in Items : j < i => task[j] # "pending"

\* an observer of the batch notes that task i ended
Ended(i) ==
    completion' = IF completion = NoValue THEN NoValue
                  ELSE List(Append(completion.value, i))

Finish(i, result, line) ==
    /\ Ended(i)
    /\ task' = [task EXCEPT ![i] = "done"]
    /\ results' = [results EXCEPT ![i] = result]
    /\ log' = [log EXCEPT ![i] = line]

\* lines 28-34, 79-81: no token, ValueError, caught, None
StartNoToken(i) ==
    /\ MayStart(i)
    /\ TokenMissing(api_token)
    /\ Finish(i, None, "error")
    /\ UNCHANGED <<app_vars, call_vars>>
    /\ UNCHANGED <<menu_items, api_token, cpu_count, pc, executor_queue, in_flight,
                   requests, fetches, returned, progress_calls>>
    /\ error_text' = [error_text EXCEPT ![i] = ExceptionText("no_token")]

\* lines 36-40: no prompt, None
StartNoPrompt(i) ==
    /\ MayStart(i)
    /\ ~TokenMissing(api_token)
    /\ ~Truthy(PromptOf(menu_items[i]))
    /\ Finish(i, None, "no_prompt")
    /\ UNCHANGED <<app_vars, call_vars>>
    /\ UNCHANGED <<menu_items, api_token, cpu_count, error_text, pc, executor_queue, in_flight,
                   requests, fetches, returned, progress_calls>>

\* lines 42-58: the request is submitted to the default executor and awaited
StartSubmit(i) ==
    /\ MayStart(i)
    /\ ~TokenMissing(api_token)
    /\ Truthy(PromptOf(menu_items[i]))
    /\ task' = [task EXCEPT ![i] = "queued"]
    /\ executor_queue' = Append(executor_queue, i)
    /\ log' = [log EXCEPT ![i] = "generating"]
    /\ UNCHANGED <<app_vars, call_vars>>
    /\ UNCHANGED <<menu_items, api_token, cpu_count, error_text, pc, in_flight, results,
                   requests, fetches, returned, progress_calls,
                   completion>>

\* a worker thread of the executor takes the oldest work item and calls
\* replicate.run (lines 55-56): the request is in flight
WorkerRun ==
    /\ executor_queue # << >>
    /\ Cardinality(in_flight) < DefaultMaxWorkers(cpu_count)
    /\ LET i == Head(executor_queue) IN
        /\ executor_queue' = Tail(executor_queue)
        /\ in_flight' = in_flight \cup {i}
        /\ task' = [task EXCEPT ![i] = "running"]
        /\ requests' = [requests EXCEPT ![i] = @ + 1]
    /\ UNCHANGED <<app_vars, call_vars>>
    /\ UNCHANGED <<menu_items, api_token, cpu_count, error_text, pc, results, log, fetches,
                   returned, progress_calls,
                   completion>>

\* every task has taken its first step: the loop now resumes suspended ones
AllStarted == \A j \in Items : task[j] # "pending"

\* lines 58-63, 75-81: replicate.run ends; the coroutine resumes with its outcome
RequestReturn(i, out) ==
    /\ AllStarted
    /\ i \in in_flight
    /\ task[i] = "running"
    /\ ServiceGives(i, "request", out)
    /\ in_flight' = in_flight \ {i}
    /\ task' = [task EXCEPT ![i] = AfterRequest(out)]
    /\ executor_queue' =
          IF AfterRequest(out) = "queued" THEN Append(executor_queue, i) ELSE executor_queue
    /\ results' = [results EXCEPT ![i] = IF AfterRequest(out) = "done" THEN None ELSE @]
    /\ log' = [log EXCEPT ![i] = RequestLog(out)]
    /\ fetches' = [fetches EXCEPT ![i] = IF AfterRequest(out) = "fetching" THEN @ + 1 ELSE @]
    /\ IF AfterRequest(out) = "done" THEN Ended(i) ELSE completion' = completion
    /\ UNCHANGED <<app_vars, call_vars>>
    /\ UNCHANGED <<menu_items, api_token, cpu_count, pc, requests, returned, progress_calls>>
    /\ error_text' = [error_text EXCEPT ![i] = IF out \in Raises THEN ExceptionText(out) ELSE @]

\* lines 8-16, 63-74, 79-81: the byte fetch ends
FetchReturn(i, out) ==
    /\ task[i] = "fetching"
    /\ ServiceGives(i, "fetch", out)
    /\ LET url == UrlOf(PromptOf(menu_items[i]))
           fetched == FetchImageBytes(url, out)
       IN Finish(i, ResultAfterFetch(menu_items[i], url, fetched), FetchLog(fetched))
    /\ UNCHANGED <<app_vars, call_vars>>
    /\ UNCHANGED <<menu_items, api_token, cpu_count, pc, executor_queue, in_flight,
                   requests, fetches, returned, progress_calls>>
    /\ error_text' = [error_text EXCEPT ![i] = IF out \in Raises THEN ExceptionText(out) ELSE @]

\* a suspended task is cancelled: CancelledError is not an Exception, line 79
\* does not catch it, and gather (return_exceptions=True) collects it; a work
\* item not started yet is dropped, a started replicate.run runs on
Cancel(i) ==
    /\ pc = "gathering"
    /\ AllStarted
    /\ task[i] \in Awaiting
    /\ task' = [task EXCEPT ![i] = "done"]
    /\ results' = [results EXCEPT ![i] = CancelledError]
    /\ Ended(i)
    /\ executor_queue' = SelectSeq(executor_queue, LAMBDA j : j # i)
    /\ UNCHANGED <<app_vars, call_vars>>
    /\ UNCHANGED <<menu_items, api_token, cpu_count, error_text, pc, in_flight, log,
                   requests, fetches, returned, progress_calls>>

\* the replicate.run of a cancelled task ends in its thread; nobody awaits it
AbandonedReturn(i) ==
    /\ i \in in_flight
    /\ task[i] = "done"
    /\ in_flight' = in_flight \ {i}
    /\ UNCHANGED <<app_vars, call_vars>>
    /\ UNCHANGED <<menu_items, api_token, cpu_count, error_text, pc, task, executor_queue, results,
                   log, requests, fetches, returned, progress_calls,
                   completion>>

\* lines 102-115: gather is complete; the results are filtered and returned
Collect ==
    /\ pc = "gathering"
    /\ \A i \in Items : task[i] = "done"
    /\ pc' = "returned"
    /\ returned' = List(SuccessfulResults(GatheredResults))
    /\ UNCHANGED <<app_vars, call_vars>>
    /\ UNCHANGED <<menu_items, api_token, cpu_count, error_text, task, executor_queue, in_flight,
                   results, log, requests, fetches, progress_calls,
                   completion>>

\* the caller awaits generate_images_for_menu(menu_items) once more, lines
\* 83-99: nothing of the first call is left but what it returned
CallAgain ==
    /\ pc = "returned"
    /\ call_no = 1
    /\ in_flight = {}
    /\ first_returned' = returned
    /\ call_no' = 2
    /\ pc' = "called"
    /\ task' = [i \in Items |-> NewTask(i)]
    /\ results' = [i \in Items |-> NoValue]
    /\ log' = [i \in Items |-> "none"]
    /\ error_text' = [i \in Items |-> EmptyStr]
    /\ requests' = [i \in Items |-> 0]
    /\ fetches' = [i \in Items |-> 0]
    /\ returned' = NoValue
    /\ UNCHANGED <<menu_items, api_token, cpu_count, executor_queue, in_flight,
                   progress_calls, completion, service>>
    /\ UNCHANGED app_vars

RequestOutcomes == {"url", "none", "raise"}

FetchOutcomes == {"bytes", "client_error", "other_error"}

NextPipeline ==
    \/ ReturnEmpty
    \/ Gather
    \/ \E i \in Items : StartNoToken(i)
    \/ \E i \in Items : StartNoPrompt(i)
    \/ \E i \in Items : StartSubmit(i)
    \/ WorkerRun
    \/ \E i \in Items, out \in RequestOutcomes : RequestReturn(i, out)
    \/ \E i \in Items, out \in FetchOutcomes : FetchReturn(i, out)
    \/ \E i \in Items : Cancel(i)
    \/ \E i \in Items : AbandonedReturn(i)
    \/ Collect


(***************************************************************************)
(* vision.py: what an extraction call returns for a service response.      *)
(***************************************************************************)
Soup == <<"S", "o", "u", "p">>

APrompt == <<"a", " ", "s", "o", "u", "p">>

Blank == <<" ">>

\* a slip: the structure check forgets the price
RequiredFieldsWithoutPrice == {"name", "description", "prompt"}

\* required_fields of the structure check
RequiredFields == {"name", "description", "price", "prompt"}

\* str.startswith(prefix)
StartsWith(s, prefix) ==
    Len(s) >= Len(prefix) /\ SubSeq(s, 1, Len(prefix)) = prefix

\* str.endswith(suffix)
EndsWith(s, suffix) ==
    Len(s) >= Len(suffix) /\ SubSeq(s, Len(s) - Len(suffix) + 1, Len(s)) = suffix

\* the backquote character, written ^ in these texts
Tick == "^"

\* the marker of a markdown code block: three backquotes
Fence == <<Tick, Tick, Tick>>

FenceJson == Fence \o <<"j", "s", "o", "n">>

\* a slip: the text is not stripped again after the fences are dropped
CleanWithoutLastStrip(response_text) ==
    LET stripped == Strip(response_text)
        opened == IF StartsWith(stripped, FenceJson) THEN SubSeq(stripped, 8, Len(stripped))
                  ELSE IF StartsWith(stripped, Fence) THEN SubSeq(stripped, 4, Len(stripped))
                  ELSE stripped
    IN IF EndsWith(opened, Fence) THEN SubSeq(opened, 1, Len(opened) - 3) ELSE opened

\* clean_json_response: strip, drop a leading ```json (7 characters) or else
\* a leading ```, drop a trailing ```, strip
CleanJsonResponse(response_text) ==
    LET stripped == Strip(response_text)
        opened == IF StartsWith(stripped, FenceJson) THEN SubSeq(stripped, 8, Len(stripped))
                  ELSE IF StartsWith(stripped, Fence) THEN SubSeq(stripped, 4, Len(stripped))
                  ELSE stripped
        closed == IF EndsWith(opened, Fence) THEN SubSeq(opened, 1, Len(opened) - 3)
                  ELSE opened
    IN Strip(closed)

\* the JSON objects of the texts considered: in a text, one capital letter
\* stands for the complete literal of one object (the last one lacks 'price')
JsonObjects ==
    [S |-> [name |-> Soup, description |-> EmptyStr, price |-> EmptyStr, prompt |-> APrompt],
     E |-> [name |-> EmptyStr, description |-> EmptyStr, price |-> EmptyStr, prompt |-> APrompt],
     B |-> [name |-> Blank, description |-> EmptyStr, price |-> EmptyStr, prompt |-> EmptyStr],
     P |-> [name |-> Soup, description |-> EmptyStr, price |-> EmptyStr, prompt |-> Blank],
     K |-> [name |-> Soup, description |-> EmptyStr, prompt |-> APrompt]]

\* the value of a one-character JSON literal: an object, or the number 7
JsonScalar(c) == IF c \in DOMAIN JsonObjects THEN JsonObjects[c] ELSE [py |-> "int"]

IsJsonScalar(c) == c \in DOMAIN JsonObjects \cup {"7"}

\* json.loads on these texts: a scalar, or an array of scalars separated by
\* commas, with whitespace allowed around every token; anything else is a
\* JSONDecodeError (ok = FALSE)
JsonLoads(text) ==
    LET t == Strip(text) IN
    IF Len(t) = 1 /\ IsJsonScalar(t[1]) THEN [ok |-> TRUE, value |-> JsonScalar(t[1])]
    ELSE IF Len(t) >= 2 /\ t[1] = "[" /\ t[Len(t)] = "]"
    THEN LET inner == SelectSeq(SubSeq(t, 2, Len(t) - 1), LAMBDA c : ~IsSpace(c))
             n == Len(inner)
         IN IF n = 0 THEN [ok |-> TRUE, value |-> List(<< >>)]
            ELSE IF /\ n % 2 = 1
                    /\ \A k \in 1..n : IF k % 2 = 1 THEN IsJsonScalar(inner[k])
                                        ELSE inner[k] = ","
            THEN [ok |-> TRUE,
                  value |-> List([k \in 1..((n + 1) \div 2) |-> JsonScalar(inner[2 * k - 1])])]
            ELSE [ok |-> FALSE]
    ELSE [ok |-> FALSE]

\* a slip: the handler of JSONDecodeError keeps the objects it can find
SalvagedItems(cleaned) ==
    LET found == SelectSeq(cleaned, LAMBDA c : c \in DOMAIN JsonObjects)
    IN [k \in 1..Len(found) |-> JsonObjects[found[k]]]

\* `except json.JSONDecodeError`: three prints and `return []`
OnJsonDecodeError(cleaned) == << >>

\* the body of extract_menu_items_from_image / extract_menu_items_from_text
\* after the service answered `resp`: an exception of generate_content, or
\* a response whose .text is resp.text
ExtractMenuItems(key_set, resp) ==
    IF ~key_set THEN << >>
    ELSE IF resp.kind = "service_error" THEN << >>
    ELSE LET cleaned == CleanJsonResponse(resp.text)
             parsed == JsonLoads(cleaned)
         IN IF ~parsed.ok THEN OnJsonDecodeError(cleaned)
            ELSE IF TypeOf(parsed.value) # "list" THEN << >>
            ELSE IF \E i \in 1..Len(parsed.value.value) :
                       \/ TypeOf(parsed.value.value[i]) # "dict"
                       \/ ~(RequiredFields \subseteq DOMAIN parsed.value.value[i])
            THEN << >>
            ELSE parsed.value.value

(***************************************************************************)
(* app.py                                                                  *)
(***************************************************************************)
\* a slip: the name is tested without strip()
NameMissingUnstripped(item) == ~Truthy(Get(item, "name", EmptyStr))

\* `not item.get('name', '').strip()`
NameMissing(item) == ~Truthy(Strip(Get(item, "name", EmptyStr)))

\* a slip: the prompt is tested without strip()
PromptMissingUnstripped(item) == ~Truthy(Get(item, "prompt", EmptyStr))

\* `not item.get('prompt', '').strip()`
PromptMissing(item) == ~Truthy(Strip(Get(item, "prompt", EmptyStr)))

RECURSIVE ValidateLoop(_, _, _, _)
\* the loop of validate_menu_items from item i on (i is 1-based, as enumerate(.., 1))
ValidateLoop(items, i, valid_items, issues) ==
    IF i > Len(items) THEN [valid_items |-> valid_items, issues |-> issues]
    ELSE IF NameMissing(items[i])
    THEN ValidateLoop(items, i + 1, valid_items,
                      Append(issues, [item |-> i, missing |-> "name"]))
    ELSE IF PromptMissing(items[i])
    THEN ValidateLoop(items, i + 1, valid_items,
                      Append(issues, [item |-> i, name |-> items[i].name,
                                      missing |-> "image prompt"]))
    ELSE ValidateLoop(items, i + 1, Append(valid_items, items[i]), issues)

\* the message validate_menu_items returns when items are valid: the f-string
\* and the value it interpolates
SuccessMessage(valid_items, issues) ==
    [text |-> "Successfully extracted {valid} valid menu items!",
     valid |-> Len(valid_items)]

\* the message returned when every item has an issue: the f-string and the
\* issues it joins
NoValidMessage(issues) ==
    [text |-> "No valid menu items found. Issues: {issues}", issues |-> issues]

\* a slip: no `if not menu_items` test, the empty list falls through the loop
NoItemsMessageOfLoop == NoValidMessage(<< >>)

\* the message returned for `not menu_items`
NoItemsMessage == [text |-> "No menu items were extracted."]

\* validate_menu_items: the returned pair, and the st.warning it makes (or None)
ValidateMenuItems(items) ==
    IF items = << >>
    THEN [success |-> FALSE,
          message |-> NoItemsMessage,
          warning |-> None]
    ELSE LET r == ValidateLoop(items, 1, << >>, << >>) IN
         IF r.valid_items = << >>
         THEN [success |-> FALSE,
               message |-> NoValidMessage(r.issues),
               warning |-> None]
         ELSE [success |-> TRUE,
               message |-> SuccessMessage(r.valid_items, r.issues),
               warning |-> IF r.issues # << >>
                           THEN [text |-> "Some items have issues but will proceed with {valid} valid items: {issues}",
                                 valid |-> Len(r.valid_items),
                                 issues |-> r.issues]
                           ELSE None]

\* the parameters generate_images_for_menu declares
PipelineParams == {"menu_items"}

\* calling the coroutine function generate_images_for_menu without awaiting it:
\* a coroutine object that never runs, or TypeError for an undeclared keyword
CallGenerateImages(items, keywords) ==
    IF keywords \subseteq PipelineParams
    THEN [py |-> "coroutine", arg |-> items]
    ELSE TypeError

\* what a handler shows
Show(kind, message) == [kind |-> kind, message |-> message]

\* bool(v) of what a call of generate_images_for_menu gave: a list is true
\* when it is not empty, a coroutine object always
IsTrue(v) == IF TypeOf(v) = "list" THEN v.value # << >> ELSE v # None

\* process_menu, lines 229-234: what is shown for the batch's result
BatchReport(visual_menu) ==
    IF IsTrue(visual_menu)
    THEN Show("success", [text |-> "Visual menu created successfully!"])
    ELSE Show("error", [text |-> "Failed to generate any images."])

\* the st.warning of validate_menu_items, if it made one
Warnings(v) == IF v.warning # None THEN <<Show("warning", v.warning)>> ELSE << >>

\* a call of validate_menu_items(candidate)
CallValidate ==
    /\ LET items == candidate
           v == ValidateMenuItems(items)
       IN
        /\ ui' = Warnings(v)
        /\ last' = [op |-> "validate_menu_items", items |-> items,
                    ret |-> [success |-> v.success, message |-> v.message]]
    /\ calls' = << >>
    /\ UNCHANGED <<google_key, candidate, response, session_state>>
    /\ UNCHANGED <<pipeline_vars, harness_vars>>

\* a call of process_menu(candidate, st_container), lines 202-234
CallProcessMenu ==
    /\ LET items == candidate
           v == ValidateMenuItems(items)
           call == CallGenerateImages(items, {"on_progress"})
       IN
        \/ /\ ~v.success
           /\ ui' = Warnings(v) \o <<Show("error", v.message)>>
           /\ calls' = << >>
           /\ last' = [op |-> "process_menu", items |-> items, ret |-> None]
        \/ /\ v.success
           /\ ui' = Warnings(v) \o <<Show("success", v.message), Show("progress", None)>>
           /\ calls' = <<[items |-> items, keywords |-> {"on_progress"}, ret |-> call]>>
           /\ last' = [op |-> "process_menu", items |-> items,
                       ret |-> IF call = TypeError THEN [py |-> "raised", exc |-> TypeError]
                               ELSE None]
    /\ UNCHANGED <<google_key, candidate, response, session_state>>
    /\ UNCHANGED <<pipeline_vars, harness_vars>>

\* the end of the script run, lines 339-349: display_menu_grid(visual_menu),
\* where len() of a coroutine object raises TypeError and ends the run, then
\* the Start Over button under a menu that is true
DisplaySection(session) ==
    IF "visual_menu" \notin DOMAIN session THEN << >>
    ELSE IF TypeOf(session.visual_menu) = "coroutine"
    THEN <<Show("exception", TypeError)>>
    ELSE IF IsTrue(session.visual_menu)
    THEN <<Show("grid", session.visual_menu), Show("button", [text |-> "Start Over"])>>
    ELSE <<Show("warning", [text |-> "No menu items to display."])>>

\* the session after a Create Visual Menu click whose extraction gave menu_data
SessionAfterCreate(menu_data) ==
    IF menu_data # << >>
    THEN [processing |-> TRUE,
          menu_items |-> List(menu_data),
          visual_menu |-> CallGenerateImages(menu_data, {})]
    ELSE [processing |-> TRUE]

\* the calls of the pipeline a Create Visual Menu click makes
CallsAfterCreate(menu_data) ==
    IF menu_data # << >>
    THEN <<[items |-> menu_data, keywords |-> {}, ret |-> CallGenerateImages(menu_data, {})]>>
    ELSE << >>

\* main, lines 295-311: an image is uploaded and Create Visual Menu is clicked
ClickCreateImage(resp) ==
    /\ LET menu_data == ExtractMenuItems(google_key, resp) IN
        /\ session_state' = SessionAfterCreate(menu_data)
        /\ calls' = CallsAfterCreate(menu_data)
        /\ ui' = DisplaySection(SessionAfterCreate(menu_data))
        /\ last' = [op |-> "main_image", items |-> menu_data, ret |-> None]
    /\ UNCHANGED <<google_key, candidate, response>>
    /\ UNCHANGED <<pipeline_vars, harness_vars>>

\* main, lines 322-337: Create Visual Menu is clicked with pasted text
ClickCreateText(menu_text, resp) ==
    /\ \/ /\ Truthy(Strip(menu_text))
          /\ LET menu_data == ExtractMenuItems(google_key, resp) IN
              /\ session_state' = SessionAfterCreate(menu_data)
              /\ calls' = CallsAfterCreate(menu_data)
              /\ ui' = DisplaySection(SessionAfterCreate(menu_data))
              /\ last' = [op |-> "main_text", items |-> menu_data, ret |-> None]
       \/ /\ ~Truthy(Strip(menu_text))
          /\ session_state' = session_state
          /\ calls' = << >>
          /\ ui' = <<Show("warning", [text |-> "Please enter some menu text first."])>>
                      \o DisplaySection(session_state)
          /\ last' = [op |-> "main_text_blank", items |-> << >>, ret |-> None]
    /\ UNCHANGED <<google_key, candidate, response>>
    /\ UNCHANGED <<pipeline_vars, harness_vars>>

\* a call of extract_menu_items_from_image(image_data), vision.py 72-124
CallExtractFromImage ==
    /\ last' = [op |-> "extract_menu_items_from_image", resp |-> response,
                ret |-> List(ExtractMenuItems(google_key, response))]
    /\ UNCHANGED <<google_key, candidate, response, session_state, ui, calls>>
    /\ UNCHANGED <<pipeline_vars, harness_vars>>

\* a call of extract_menu_items_from_text(menu_text), vision.py 126-183
CallExtractFromText ==
    /\ last' = [op |-> "extract_menu_items_from_text", resp |-> response,
                ret |-> List(ExtractMenuItems(google_key, response))]
    /\ UNCHANGED <<google_key, candidate, response, session_state, ui, calls>>
    /\ UNCHANGED <<pipeline_vars, harness_vars>>

\* a call of clean_json_response(response.text), vision.py 51-70
CallClean ==
    /\ last' = [op |-> "clean_json_response", text |-> response.text,
                ret |-> CleanJsonResponse(response.text)]
    /\ UNCHANGED <<google_key, candidate, response, session_state, ui, calls>>
    /\ UNCHANGED <<pipeline_vars, harness_vars>>

(***************************************************************************)
(* Inputs.                                                                 *)
(***************************************************************************)
\* records as a caller may hand them to validate_menu_items or process_menu:
\* name and prompt each absent, empty, blank or present
CandidatePool ==
    {Extend(n, p) :
        n \in {EmptyDict, [name |-> EmptyStr], [name |-> Blank], [name |-> Soup]},
        p \in {EmptyDict, [prompt |-> EmptyStr], [prompt |-> Blank], [prompt |-> APrompt]}}

\* the letters of the objects the extraction service may answer
ResponsePool == DOMAIN JsonObjects

RECURSIVE Joined(_)
\* ','.join of one-character literals
Joined(letters) ==
    IF letters = << >> THEN << >>
    ELSE IF Len(letters) = 1 THEN letters
    ELSE <<Head(letters), ",">> \o Joined(Tail(letters))

\* the text of the JSON array of the given objects
ArrayText(letters) == <<"[">> \o Joined(letters) \o <<"]">>

\* a response of the extraction service with the given .text
TextResponse(text) == [kind |-> "text", text |-> text]

\* texts that are JSON arrays of up to MaxExtract objects
ArrayTexts == {ArrayText(s) : s \in SeqsUpTo(ResponsePool, MaxExtract)}

\* texts that are JSON but no array of objects
OtherJsonTexts == {<<"S">>, <<"7">>, <<"[", "7", "]">>, <<"[", "S", ",", "7", "]">>}

\* texts that are no JSON: prose, nothing, and arrays cut off or garbled
\* after their first object
BrokenTexts ==
    {<<"x">>, << >>, <<"{">>, <<"[", "S">>, <<"[", "S", ",">>, <<"[", "S", ",", "{">>,
     <<"[", "S", ",", "]">>, <<"[", "S", " ", "S", "]">>, <<"S", "]">>,
     <<"[", "S", "]", "x">>}

\* what may stand before and after the payload of a response
Openings == {<< >>, FenceJson \o <<"\n">>, Fence \o <<"\n">>, <<" ">>, <<"x">>}

Closings == {<< >>, <<"\n">> \o Fence, <<" ">>}

\* the payloads wrapped into fences: texts of up to MaxPayload characters,
\* and the word json, that neither begin nor end with whitespace or a fence
Payloads ==
    {t \in SeqsUpTo({"S", "j", " ", "\n", Tick}, MaxPayload) \cup {<<"j", "s", "o", "n">>} :
        /\ t = << >> \/ (~IsSpace(t[1]) /\ ~IsSpace(t[Len(t)]))
        /\ ~StartsWith(t, Fence)
        /\ ~EndsWith(t, Fence)}

\* a payload as a markdown code block with the given opening fence
Block(opening, payload) == opening \o <<"\n">> \o payload \o <<"\n">> \o Fence

\* the payload itself and its fenced forms, bare or with whitespace around
FencedForms(payload) ==
    LET forms == {payload, Block(FenceJson, payload), Block(Fence, payload)}
    IN forms \cup {<<" ">> \o f \o <<"\n">> : f \in forms}

\* what the extraction service may answer in SpecApp
ServiceResponses ==
    {[kind |-> "service_error"]}
    \cup {TextResponse(t) : t \in ArrayTexts \cup {<<"x">>, <<"S">>}}

\* what the extraction service may answer in SpecExtract
ExtractResponses ==
    {[kind |-> "service_error"]}
    \cup {TextResponse(o \o t \o c) :
             o \in Openings, t \in ArrayTexts \cup OtherJsonTexts \cup BrokenTexts,
             c \in Closings}

\* a list of three records: a complete one, one with an empty name, one
\* without a name key
MixedCandidates ==
    <<[name |-> Soup, prompt |-> APrompt],
      [name |-> EmptyStr, prompt |-> APrompt],
      [prompt |-> APrompt]>>

MenuTexts == {EmptyStr, Blank, <<"S", "o", "u", "p", " ", "$", "5">>}

(***************************************************************************)
(* Specifications.                                                         *)
(***************************************************************************)
\* no batch is running
PipelineIdle ==
    /\ menu_items = << >>
    /\ api_token \in BOOLEAN
    /\ cpu_count = 1
    /\ pc = "idle"
    /\ task = << >>
    /\ executor_queue = << >>
    /\ in_flight = {}
    /\ results = << >>
    /\ log = << >>
    /\ error_text = << >>
    /\ requests = << >>
    /\ fetches = << >>
    /\ returned = NoValue
    /\ progress_calls = << >>
    /\ HarnessOff

\* the app is started
InitApp ==
    /\ PipelineIdle
    /\ google_key \in BOOLEAN
    /\ candidate = << >>
    /\ response = NoValue
    /\ session_state = EmptyDict
    /\ ui = << >>
    /\ calls = << >>
    /\ last = NoValue

\* a caller is about to hand a list of records to the validator
InitValidate ==
    /\ PipelineIdle
    /\ google_key = TRUE
    /\ candidate \in SeqsUpTo(CandidatePool, MaxCandidates) \cup {MixedCandidates}
    /\ response = NoValue
    /\ session_state = EmptyDict
    /\ ui = << >>
    /\ calls = << >>
    /\ last = NoValue

\* a caller of vision.py is about to get an answer of the extraction service
InitExtract ==
    /\ PipelineIdle
    /\ google_key \in BOOLEAN
    /\ candidate = << >>
    /\ response \in ExtractResponses
    /\ session_state = EmptyDict
    /\ ui = << >>
    /\ calls = << >>
    /\ last = NoValue

NextExtract ==
    \/ CallExtractFromImage
    \/ CallExtractFromText

\* a caller is about to clean the text of a response
InitClean ==
    /\ PipelineIdle
    /\ google_key = TRUE
    /\ candidate = << >>
    /\ response \in {TextResponse(f) : f \in UNION {FencedForms(t) : t \in Payloads}}
    /\ session_state = EmptyDict
    /\ ui = << >>
    /\ calls = << >>
    /\ last = NoValue

NextClean == CallClean

NextValidate ==
    \/ CallValidate
    \/ CallProcessMenu

NextApp ==
    \/ \E resp \in ServiceResponses : ClickCreateImage(resp)
    \/ \E menu_text \in MenuTexts, resp \in ServiceResponses : ClickCreateText(menu_text, resp)

\* the batch against a service that answers every request and every fetch
NextBurst ==
    \/ Gather
    \/ \E i \in Items : StartSubmit(i)
    \/ WorkerRun
    \/ \E i \in Items : RequestReturn(i, "url")
    \/ \E i \in Items : FetchReturn(i, "bytes")
    \/ Collect

\* the batch on a host with one CPU, any menu of up to MaxItems items
Init == InitPipeline(SeqsUpTo(PipelinePool, MaxItems), {1}) /\ HarnessOff

Next == NextPipeline

Spec == Init /\ [][Next]_vars

\* a menu of BurstItems valid items, on each host, with the token set
InitBurst ==
    /\ InitPipeline({[i \in 1..BurstItems |-> SoupItem]}, CpuCounts)
    /\ HarnessOff
    /\ api_token

SpecBurst == InitBurst /\ [][NextBurst]_vars

\* the batch on menus of up to OrderItems items, with an observer that notes
\* the order in which the tasks end
InitOrder ==
    /\ InitPipeline(SeqsUpTo(PipelinePool, OrderItems), {1})
    /\ completion = List(<< >>)
    /\ service = NoValue
    /\ call_no = 1
    /\ first_returned = NoValue

SpecOrder == InitOrder /\ [][NextPipeline]_vars

\* what the two services do for one prompt: the request gives a URL whose
\* fetch ends one way, or the request gives nothing, or it raises
PromptOutcomes ==
    {[request |-> "url", fetch |-> f] : f \in FetchOutcomes}
    \cup {[request |-> r, fetch |-> "bytes"] : r \in {"none", "raise"}}

\* the services whose outcome is a function of the prompt
Services ==
    {[py |-> "fixed", outcome |-> f] :
        f \in [{PromptOf(item) : item \in PipelinePool} \ {EmptyStr} -> PromptOutcomes]}

\* the batch called twice on the same menu of up to TwiceItems items, against
\* services whose outcome is fixed by the prompt
InitTwice ==
    /\ InitPipeline(SeqsUpTo(PipelinePool, TwiceItems), {1})
    /\ completion = NoValue
    /\ service \in Services
    /\ call_no = 1
    /\ first_returned = NoValue

NextTwice ==
    \/ ReturnEmpty
    \/ Gather
    \/ \E i \in Items : StartNoToken(i)
    \/ \E i \in Items : StartNoPrompt(i)
    \/ \E i \in Items : StartSubmit(i)
    \/ WorkerRun
    \/ \E i \in Items, out \in RequestOutcomes : RequestReturn(i, out)
    \/ \E i \in Items, out \in FetchOutcomes : FetchReturn(i, out)
    \/ Collect
    \/ CallAgain

SpecTwice == InitTwice /\ [][NextTwice]_vars

\* the batch on menus of up to RejectItems items, against an image service
\* that may reject the account (HTTP 402)
InitReject == InitPipeline(SeqsUpTo(PipelinePool, RejectItems), {1}) /\ HarnessOff

NextReject ==
    \/ ReturnEmpty
    \/ Gather
    \/ \E i \in Items : StartNoToken(i)
    \/ \E i \in Items : StartNoPrompt(i)
    \/ \E i \in Items : StartSubmit(i)
    \/ WorkerRun
    \/ \E i \in Items, out \in RequestOutcomes \cup {"payment_required"} : RequestReturn(i, out)
    \/ \E i \in Items, out \in FetchOutcomes : FetchReturn(i, out)
    \/ \E i \in Items : Cancel(i)
    \/ \E i \in Items : AbandonedReturn(i)
    \/ Collect

SpecReject == InitReject /\ [][NextReject]_vars

\* the steps that are bound to happen: the event loop runs a task that is
\* ready, a free worker thread takes the oldest work item, and every request
\* and every fetch ends one way or another
LoopAndServiceSteps ==
    \/ ReturnEmpty
    \/ Gather
    \/ \E i \in Items : StartNoToken(i)
    \/ \E i \in Items : StartNoPrompt(i)
    \/ \E i \in Items : StartSubmit(i)
    \/ WorkerRun
    \/ \E i \in Items, out \in RequestOutcomes : RequestReturn(i, out)
    \/ \E i \in Items, out \in FetchOutcomes : FetchReturn(i, out)
    \/ \E i \in Items : AbandonedReturn(i)
    \/ Collect

\* the batch on menus of up to LiveItems items
InitLive == InitPipeline(SeqsUpTo(PipelinePool, LiveItems), {1}) /\ HarnessOff

\* the batch, with the loop, the executor and the services making progress
SpecLive == InitLive /\ [][NextPipeline]_vars /\ WF_vars(LoopAndServiceSteps)

SpecExtract == InitExtract /\ [][NextExtract]_vars

SpecClean == InitClean /\ [][NextClean]_vars

SpecApp == InitApp /\ [][NextApp]_vars

SpecValidate == InitValidate /\ [][NextValidate]_vars


(***************************************************************************)
(* Properties of the batch (imaging.py).                                   *)
(***************************************************************************)
\* the attempt for item i got a URL and the bytes behind it
Succeeded(i) == log[i] = "success"

\* the attempt for item i gave no output, failed its fetch, or raised
FailedAttempt(i) == task[i] = "done" /\ log[i] \in {"no_output", "fetch_failed", "error"}

\* the generated item a successful attempt for item i yields
ExpectedOf(i) ==
    LET url == UrlOf(menu_items[i].prompt) IN
    Extend(menu_items[i], [image_bytes |-> BytesOf(url), image_url |-> url])

\* the generated items of all items but item i, in input order
OthersOf(i) ==
    [k \in 1..(Len(menu_items) - 1) |-> ExpectedOf(IF k < i THEN k ELSE k + 1)]

\* C1: during a batch, the number of image-generation requests in flight at
\* the same moment never exceeds 5, whatever the number of items.
C1_InFlightAtMostFive == Cardinality(in_flight) <= 5

\* C2: when the batch has returned, the progress sink has been called once
\* per item, with completed = 1, 2, ..., n and total = n.
C2_ProgressOncePerAttempt ==
    pc = "returned" =>
        /\ Len(progress_calls) = Len(menu_items)
        /\ \A k \in 1..Len(progress_calls) :
              /\ progress_calls[k].completed = k
              /\ progress_calls[k].total = Len(menu_items)

\* C3: when one attempt fails (no output, failed fetch, or a raised error)
\* and all the others succeed, the batch returns a list that holds exactly
\* the other items; a successful item is never missing from the result.
C3_FailureIsolated ==
    pc = "returned" =>
        /\ TypeOf(returned) = "list"
        /\ \A i \in Items :
              (FailedAttempt(i) /\ \A j \in Items \ {i} : Succeeded(j))
                  => returned.value = OthersOf(i)
        /\ \A j \in Items :
              Succeeded(j) => \E k \in 1..Len(returned.value) : returned.value[k] = ExpectedOf(j)

\* a batch of MaxItems items has returned; the second attempt failed and the
\* others succeeded
C3_Witness ==
    /\ pc = "returned"
    /\ Len(menu_items) = 3
    /\ FailedAttempt(2)
    /\ Succeeded(1) /\ Succeeded(3)
    /\ Len(returned.value) = 2

\* C4: the returned list is no longer than the input, and it is as long as
\* the input if and only if every attempt succeeded.
C4_LengthEqualIffAllSucceeded ==
    pc = "returned" =>
        /\ Len(returned.value) <= Len(menu_items)
        /\ (Len(returned.value) = Len(menu_items)) <=> (\A i \in Items : Succeeded(i))

\* C5: every element of the returned list is a menu item with non-empty
\* image_bytes, and an input item is in the result if and only if its
\* request and its byte fetch both succeeded.
C5_OnlySuccessesReturned ==
    pc = "returned" =>
        /\ \A k \in 1..Len(returned.value) :
              /\ TypeOf(returned.value[k]) = "dict"
              /\ "image_bytes" \in DOMAIN returned.value[k]
              /\ Truthy(returned.value[k].image_bytes)
        /\ \A i \in Items :
              (results[i] # None /\ \E k \in 1..Len(returned.value) : returned.value[k] = results[i])
                  <=> Succeeded(i)

\* C6: the batch on an empty list returns an empty list, issues no request to
\* the image service, fetches nothing and never calls the progress sink.
C6_EmptyBatch ==
    (pc = "returned" /\ menu_items = << >>) =>
        /\ returned = List(<< >>)
        /\ in_flight = {} /\ executor_queue = << >>
        /\ \A i \in DOMAIN requests : requests[i] = 0 /\ fetches[i] = 0
        /\ progress_calls = << >>

\* the batch on the empty list has returned
C6_Witness == pc = "returned" /\ menu_items = << >> /\ returned # NoValue

\* the state half of C7: the generated item of a successful attempt has the
\* keys of its input item plus image_bytes and image_url, every input field
\* with its input value, and it is an element of the result; no input item
\* has an image_bytes key
FieldsPreserved ==
    /\ \A i \in Items : "image_bytes" \notin DOMAIN menu_items[i]
    /\ pc = "returned" =>
          \A i \in Items : Succeeded(i) =>
              /\ TypeOf(results[i]) = "dict"
              /\ DOMAIN results[i] = DOMAIN menu_items[i] \cup {"image_bytes", "image_url"}
              /\ \A f \in DOMAIN menu_items[i] : results[i][f] = menu_items[i][f]
              /\ \E k \in 1..Len(returned.value) : returned.value[k] = results[i]

\* C7: each successful output item has the name, description, price, tags and
\* ingredients of its input item, with only image_bytes and the image source
\* added, and the input list is never changed by the batch.
C7_FieldsPreserved == [](FieldsPreserved) /\ [][menu_items' = menu_items]_vars

\* a batch has returned a generated Soup item, which has all six input fields
C7_Witness ==
    /\ pc = "returned"
    /\ \E i \in Items :
          /\ menu_items[i] = SoupItem
          /\ Succeeded(i)
          /\ results[i].tags = SoupItem.tags
          /\ results[i].image_bytes # EmptyStr

\* the steps a task may take: Pending (pending, queued), InFlight (running,
\* fetching), ended (done)
TaskSteps ==
    {<<"pending", "queued">>, <<"pending", "done">>, <<"queued", "running">>,
     <<"queued", "done">>, <<"running", "fetching">>, <<"running", "done">>,
     <<"fetching", "done">>}

\* C8: within one batch each item goes Pending -> InFlight -> Succeeded or
\* Failed: at most one request is ever issued for it, an ended attempt stays
\* ended with its result, and a failed item is not attempted again.
C8_OneAttemptPerItem ==
    [][\A i \in Items :
          /\ (task[i] # task'[i]) => <<task[i], task'[i]>> \in TaskSteps
          /\ task[i] = "done" => (task'[i] = "done" /\ results'[i] = results[i])
          /\ requests'[i] <= 1
          /\ requests'[i] >= requests[i]]_vars

\* a batch has returned in which a request was issued for an item and failed
C8_Witness ==
    /\ pc = "returned"
    /\ \E i \in Items : requests[i] = 1 /\ log[i] = "no_output" /\ results[i] = None

\* item i reaches generate_image_async with no prompt: no key, or an empty string
HasNoPrompt(i) == "prompt" \notin DOMAIN menu_items[i] \/ menu_items[i].prompt = EmptyStr

\* C13: an item that reaches generate_image_async with an empty prompt ends
\* as a failure (None) without any request to the image service and without
\* any fetch, and the batch goes on: every other item that succeeded is in
\* the result.
C13_EmptyPromptNoRequest ==
    \A i \in Items : HasNoPrompt(i) =>
        /\ requests[i] = 0 /\ fetches[i] = 0
        /\ i \notin in_flight
        /\ task[i] \in {"pending", "done"}
        /\ task[i] = "done" => (results[i] = None /\ ~Succeeded(i))
        /\ pc = "returned" =>
              /\ TypeOf(returned) = "list"
              /\ \A j \in Items :
                    Succeeded(j) => \E k \in 1..Len(returned.value) :
                                       returned.value[k] = ExpectedOf(j)

\* a batch has returned in which an item without a prompt was turned away and
\* a later item was generated
C13_Witness ==
    /\ pc = "returned"
    /\ \E i, j \in Items :
          /\ i < j
          /\ HasNoPrompt(i) /\ log[i] = "no_prompt" /\ requests[i] = 0
          /\ Succeeded(j)
          /\ returned.value = <<ExpectedOf(j)>>

\* C27: with REPLICATE_API_TOKEN unset, the batch on a non-empty list makes
\* no request to the image service and no fetch, every attempt ends as an
\* ordinary failure (None), and the batch returns the empty list.
C27_NoTokenNoRequest ==
    (~api_token /\ menu_items # << >>) =>
        /\ \A i \in Items :
              /\ requests[i] = 0 /\ fetches[i] = 0
              /\ task[i] \in {"pending", "done"}
              /\ task[i] = "done" => results[i] = None
        /\ in_flight = {} /\ executor_queue = << >>
        /\ pc = "returned" => returned = List(<< >>)

\* without the token, the batch on three items has returned the empty list
\* after each attempt printed its error line
C27_Witness ==
    /\ ~api_token
    /\ pc = "returned"
    /\ Len(menu_items) = 3
    /\ \A i \in Items : log[i] = "error" /\ error_text[i] = ExceptionText("no_token")
    /\ returned = List(<< >>)

\* C14: with the image-service credential missing, the batch on a non-empty
\* menu starts no per-item attempt and the caller gets a configuration error,
\* not a list left after per-item failures.
C14_MissingCredentialAbortsEagerly ==
    (~api_token /\ menu_items # << >>) =>
        /\ \A i \in Items : task[i] = "pending" /\ log[i] = "none"
        /\ pc = "returned" => TypeOf(returned) = "ConfigurationError"

\* the menu items among the elements of a returned list
ItemsOf(ret) == SelectSeq(ret.value, LAMBDA r : TypeOf(r) = "dict")

\* the generated items of the attempts that succeeded, taken in the order `order`
SucceededIn(order) ==
    LET done == SelectSeq(order, LAMBDA i : Succeeded(i))
    IN [k \in 1..Len(done) |-> ExpectedOf(done[k])]

\* C15 as stated: the returned list has the successful items in the order in
\* which their attempts ended.
C15_CompletionOrder ==
    (pc = "returned" /\ menu_items # << >>) =>
        ItemsOf(returned) = SucceededIn(completion.value)

\* C15 as amended: the returned list has the successful items in input
\* order, whatever the order in which their attempts ended.
C15_InputOrder ==
    (pc = "returned" /\ menu_items # << >>) =>
        ItemsOf(returned) = SucceededIn([i \in Items |-> i])

\* a batch of two different items has returned both, the first item first,
\* though the attempt for the second item ended first
C15_Witness ==
    /\ pc = "returned"
    /\ Len(menu_items) = 2
    /\ completion.value = <<2, 1>>
    /\ Succeeded(1) /\ Succeeded(2)
    /\ ExpectedOf(1) # ExpectedOf(2)
    /\ returned.value = <<ExpectedOf(1), ExpectedOf(2)>>

\* the returned item r was generated from input item i: it has the fields of
\* the input item, with their values, and the image
GeneratedFrom(r, i) ==
    /\ DOMAIN r = DOMAIN menu_items[i] \cup {"image_bytes", "image_url"}
    /\ \A f \in DOMAIN menu_items[i] : r[f] = menu_items[i][f]

\* C25: the successful items of the returned list are in the relative order
\* of the input list, whatever order the attempts ended in: they are the
\* generated items of input positions that strictly increase along the list.
C25_OrderPreservingSubsequence ==
    (pc = "returned" /\ menu_items # << >>) =>
        LET out == ItemsOf(returned) IN
        \E f \in [1..Len(out) -> Items] :
            /\ \A k \in 1..Len(out) : GeneratedFrom(out[k], f[k])
            /\ \A k, l \in 1..Len(out) : k < l => f[k] < f[l]

\* the batch on [Salad, Soup] has returned Salad and then Soup, though the
\* attempt for Soup ended before the attempt for Salad
C25_Witness ==
    /\ pc = "returned"
    /\ menu_items = <<SaladItem, SoupItem>>
    /\ completion.value = <<2, 1>>
    /\ Len(returned.value) = 2
    /\ \A k \in 1..2 : TypeOf(returned.value[k]) = "dict"
    /\ returned.value[1].name = SaladItem.name
    /\ returned.value[2].name = SoupItem.name

\* the items whose generated item is an element of the list `ret`
SucceededSet(ret) ==
    {i \in Items : \E k \in 1..Len(ret.value) :
        /\ TypeOf(ret.value[k]) = "dict"
        /\ \A f \in DOMAIN menu_items[i] :
              f \in DOMAIN ret.value[k] /\ ret.value[k][f] = menu_items[i][f]}

\* the items the fixed services generate: the token is set, the item has a
\* prompt, the request for it gives a URL and the fetch gives the bytes
ServiceSucceeds ==
    {i \in Items :
        /\ api_token
        /\ ~HasNoPrompt(i)
        /\ service.outcome[menu_items[i].prompt] = [request |-> "url", fetch |-> "bytes"]}

\* C16: two calls of generate_images_for_menu on the same list, against
\* services whose outcome is a function of the prompt, give the same set of
\* succeeded items and the same set of failed items; the second result is
\* what the services fix, whatever the first call did.
C16_SecondCallSameSets ==
    (call_no = 2 /\ pc = "returned") =>
        /\ SucceededSet(returned) = SucceededSet(first_returned)
        /\ Items \ SucceededSet(returned) = Items \ SucceededSet(first_returned)
        /\ SucceededSet(returned) = ServiceSucceeds
        /\ \A k \in 1..Len(returned.value) : TypeOf(returned.value[k]) = "dict"

\* the second call on a list of two items has returned; one item was
\* generated in both calls and the other failed in both
C16_Witness ==
    /\ call_no = 2 /\ pc = "returned"
    /\ Len(menu_items) = 2
    /\ Len(first_returned.value) = 1
    /\ Len(returned.value) = 1
    /\ \E i \in Items : Succeeded(i) /\ requests[i] = 1
    /\ \E i \in Items : FailedAttempt(i) /\ requests[i] = 1

\* the request for item i gave a URL and the fetch of its bytes failed
FetchFailed(i) == task[i] = "done" /\ requests[i] = 1 /\ fetches[i] = 1 /\ ~Succeeded(i)
                  /\ results[i] # CancelledError

\* the request for item i itself failed: no output, or an exception
ServiceError(i) == task[i] = "done" /\ requests[i] = 1 /\ fetches[i] = 0
                   /\ log[i] \in {"no_output", "error"}

\* C18: an attempt whose request succeeded and whose byte fetch failed ends
\* with an outcome that differs from the outcome of an attempt whose request
\* failed; the caller never gets the same value for both.
C18_FetchFailedDistinct ==
    \A i, j \in Items : (FetchFailed(i) /\ ServiceError(j)) => results[i] # results[j]

\* C19: the report the caller makes of a finished batch tells three outcomes
\* apart: the report for a batch in which some but not all items succeeded
\* differs from the report for none and from the report for all.
C19_ThreeDistinctReports ==
    (/\ pc = "returned"
     /\ \E i \in Items : Succeeded(i)
     /\ \E i \in Items : FailedAttempt(i)
     /\ \A i \in Items : Succeeded(i) \/ FailedAttempt(i)) =>
        /\ BatchReport(returned) # BatchReport(List(<< >>))
        /\ BatchReport(returned) # BatchReport(List(menu_items))

\* the image service rejected the account for item i (HTTP 402)
Rejected(i) == task[i] = "done" /\ error_text[i] = ExceptionText("payment_required")

\* C20: an attempt rejected for billing or authorization (HTTP 402) ends
\* with an outcome, or with a line, of its own: no attempt that failed for
\* another reason has both the same outcome and the same line.
C20_RejectionDistinct ==
    \A i, j \in Items :
        (Rejected(i) /\ FailedAttempt(j) /\ ~Rejected(j)) =>
            (results[i] # results[j] \/ log[i] # log[j])

\* the value of the completed-count accumulator: the number of completions
\* the progress sink was told of
CompletedCount == Len(progress_calls)

\* C21: under every interleaving of the attempts no update of the results or
\* of the completed count is lost: when the batch has returned, the result
\* has exactly one entry per successful attempt and the completed count
\* equals the number of attempts.
C21_NoLostUpdate ==
    pc = "returned" =>
        /\ Len(ItemsOf(returned)) = Cardinality({i \in Items : Succeeded(i)})
        /\ \A i \in Items :
              Succeeded(i) => \E k \in 1..Len(returned.value) : returned.value[k] = results[i]
        /\ CompletedCount = Len(menu_items)

\* C22: provided every request and every fetch ends, the batch on a finite
\* menu returns a list, with every item's attempt ended, whatever attempts
\* failed.
C22_BatchReturns ==
    <>(/\ pc = "returned"
       /\ TypeOf(returned) = "list"
       /\ \A i \in Items : task[i] = "done")

\* a batch of two items has returned though both attempts failed, one on
\* its request and one on its fetch
C22_Witness ==
    /\ pc = "returned"
    /\ Len(menu_items) = 2
    /\ \E i, j \in Items :
          /\ log[i] = "error" /\ fetches[i] = 0 /\ requests[i] = 1
          /\ log[j] = "fetch_failed"
    /\ returned = List(<< >>)


(***************************************************************************)
(* Properties of the validator and of the paths into the batch (app.py).   *)
(***************************************************************************)
\* an item is valid when its name and its prompt are non-empty after trimming
IsValidItem(item) ==
    /\ "name" \in DOMAIN item /\ Strip(item.name) # EmptyStr
    /\ "prompt" \in DOMAIN item /\ Strip(item.prompt) # EmptyStr

\* the positions of the valid items of a list
ValidPositions(items) == {i \in 1..Len(items) : IsValidItem(items[i])}

\* the last handler showed a warning or an error that names item i
Reported(i) ==
    \E u \in 1..Len(ui) :
        /\ ui[u].kind \in {"warning", "error"}
        /\ "issues" \in DOMAIN ui[u].message
        /\ \E q \in 1..Len(ui[u].message.issues) : ui[u].message.issues[q].item = i

\* C9: on the paths of main from extraction to the batch, an extracted item
\* whose name or prompt is missing or blank is in no list handed to
\* generate_images_for_menu, and its exclusion is reported.
C9_InvalidExcludedAndReported ==
    (last # NoValue /\ last.op \in {"main_image", "main_text"}) =>
        \A i \in 1..Len(last.items) :
            ~IsValidItem(last.items[i]) =>
                /\ \A c \in 1..Len(calls) :
                      \A k \in 1..Len(calls[c].items) : calls[c].items[k] # last.items[i]
                /\ Reported(i)

\* validate_menu_items has returned for the list `candidate`
Validated == last # NoValue /\ last.op = "validate_menu_items"

\* success is false exactly when no valid item remains
SuccessIffSomeValid == (~last.ret.success) <=> (ValidPositions(last.items) = {})

NameAbsent(item) == ~("name" \in DOMAIN item /\ Strip(item.name) # EmptyStr)

\* the issues the validator recorded, as it passed them on: joined into the
\* returned message when no item is valid, in its st.warning otherwise
RecordedIssues ==
    IF ~last.ret.success THEN last.ret.message.issues
    ELSE IF ui = << >> THEN << >>
    ELSE ui[1].message.issues

\* C11: the validator records exactly one issue per invalid item and none for
\* a valid item, each issue naming the 1-based position of the item and the
\* missing field; the list [complete Soup, empty name, no name key] gives 1
\* valid item and 2 issues, at positions 2 and 3, both for a missing name.
C11_OneIssuePerInvalidItem ==
    (Validated /\ last.items # << >>) =>
        /\ \A i \in 1..Len(last.items) :
              Cardinality({q \in 1..Len(RecordedIssues) : RecordedIssues[q].item = i})
                  = IF IsValidItem(last.items[i]) THEN 0 ELSE 1
        /\ \A q \in 1..Len(RecordedIssues) :
              /\ RecordedIssues[q].item \in 1..Len(last.items)
              /\ RecordedIssues[q].missing
                    = IF NameAbsent(last.items[RecordedIssues[q].item])
                      THEN "name" ELSE "image prompt"
        /\ last.items = MixedCandidates =>
              /\ last.ret.success
              /\ last.ret.message.valid = 1
              /\ RecordedIssues = <<[item |-> 2, missing |-> "name"],
                                    [item |-> 3, missing |-> "name"]>>

\* the validator has returned for the list [complete Soup, empty name, no name key]
C11_Witness ==
    /\ Validated
    /\ last.items = MixedCandidates
    /\ Len(RecordedIssues) = 2

\* C12: for the empty list the validator returns success = false with the
\* "no items were extracted" message, and a non-empty list whose items are all
\* invalid gets success = false with a different message.
C12_EmptyInputMessage ==
    Validated =>
        /\ last.items = << >> =>
              /\ ~last.ret.success
              /\ last.ret.message.text = "No menu items were extracted."
        /\ (last.items # << >> /\ ValidPositions(last.items) = {}) =>
              /\ ~last.ret.success
              /\ last.ret.message.text = "No valid menu items found. Issues: {issues}"
              /\ last.ret.message.text # "No menu items were extracted."

\* the validator has returned for the empty list
C12_Witness ==
    /\ Validated
    /\ last.items = << >>
    /\ ~last.ret.success
    /\ ui = << >>

\* an extraction function has returned
Extracted ==
    /\ last # NoValue
    /\ last.op \in {"extract_menu_items_from_image", "extract_menu_items_from_text"}

\* C17: when the text of the extraction service's response is no JSON once
\* the fences are removed, extract_menu_items_from_image and
\* extract_menu_items_from_text return the empty list, never some of the items.
C17_UnparseableGivesEmpty ==
    (Extracted /\ last.resp.kind = "text"
               /\ ~JsonLoads(CleanJsonResponse(last.resp.text)).ok) =>
        last.ret = List(<< >>)

\* an extraction function has returned the empty list, with the key set, for
\* a fenced response that holds a complete object and then breaks off
C17_Witness ==
    /\ Extracted
    /\ google_key
    /\ last.resp.kind = "text"
    /\ last.resp.text = FenceJson \o <<"\n", "[", "S", ",", "{", "\n">> \o Fence
    /\ last.ret = List(<< >>)

\* C23: validate_menu_items is a pure function: whatever the input, it shows
\* nothing in the UI and changes nothing; it only returns its pair.
C23_ValidatorPure ==
    Validated => (ui = << >> /\ session_state = EmptyDict /\ calls = << >>)

\* clean_json_response has returned
Cleaned == last # NoValue /\ last.op = "clean_json_response"

\* C24: for a payload P without surrounding whitespace and without a fence
\* of its own, clean_json_response gives exactly P for P itself and for P
\* inside a ```json or a ``` code block, with or without whitespace around.
C24_FencedFormsCleanToPayload ==
    Cleaned => \A t \in Payloads : last.text \in FencedForms(t) => last.ret = t

\* clean_json_response has unwrapped a ```json block, with whitespace around
\* it, whose payload holds a backquote and a blank
C24_Witness ==
    /\ Cleaned
    /\ last.text = <<" ">> \o Block(FenceJson, <<Tick, " ", "S">>) \o <<"\n">>
    /\ last.ret = <<Tick, " ", "S">>

\* the record r has the four keys every extracted item must have
HasFourKeys(r) ==
    TypeOf(r) = "dict" /\ {"name", "description", "price", "prompt"} \subseteq DOMAIN r

ClickAccepted == last # NoValue /\ last.op \in {"main_image", "main_text"}

\* the last script run rendered the Start Over button
StartOverOffered ==
    \E u \in 1..Len(ui) : ui[u].kind = "button" /\ ui[u].message.text = "Start Over"

\* what C28 says of the Create Visual Menu clicks: after an accepted click
\* the session holds only what this click stored, visual_menu only if its
\* extraction gave an item, and the pipeline was called only then; a click
\* with blank text called nothing
ClicksKeepSessionClean ==
    /\ ClickAccepted =>
          /\ session_state.processing = TRUE
          /\ DOMAIN session_state =
                IF last.items # << >> THEN {"processing", "menu_items", "visual_menu"}
                ELSE {"processing"}
          /\ last.items # << >> => session_state.menu_items = List(last.items)
          /\ last.items = << >> => calls = << >>
          /\ \A c \in 1..Len(calls) : calls[c].items = last.items
    /\ (last # NoValue /\ last.op = "main_text_blank") => calls = << >>

C29_ProcessMenuGatesGeneration ==
    (last # NoValue /\ last.op = "process_menu") =>
        /\ calls # << >> => ValidPositions(last.items) # {}
        /\ ValidPositions(last.items) = {} => (calls = << >> /\ last.ret = None)
        /\ ValidPositions(last.items) # {} =>
              (last.ret = None \/ (TypeOf(last.ret) = "list" /\ last.ret.value # << >>))

====
